---- MODULE Spec2Model ----
(***************************************************************************)
(* Model of the Flask movie application: the entity schema (models.py),    *)
(* the data-access layer SQLiteDataManager                                 *)
(* (datamanager/sqlite_data_manager.py) and the JSON API handler that      *)
(* writes (api.py).                                                        *)
(*                                                                         *)
(* The storage is SQLite reached through one SQLAlchemy session.  `store`  *)
(* is what a query of that session returns: the committed rows and the     *)
(* rows flushed in the open transaction.  `committed` is the database as   *)
(* of the last commit.  session.commit() makes committed = store; a        *)
(* rollback makes store = committed.  SQLite does not enforce FOREIGN KEY  *)
(* clauses unless PRAGMA foreign_keys is switched on, which the program    *)
(* never does, so only NOT NULL and UNIQUE are enforced.                   *)
(*                                                                         *)
(* Strings whose whitespace matters (director, genre names) are sequences  *)
(* of one-character strings.  Floats are stood for by integers.            *)
(***************************************************************************)
EXTENDS Integers, Sequences, FiniteSets, TLC

\* ---------------------------------------------------------------- bounds
MaxUsers == 2
MaxMovies == 2
MaxDirectors == 2
MaxGenres == 2
MaxReviews == 2
MaxYearLen == 6
MaxContentLen == 7
MaxRequests == 2

\* ---------------------------------------------------------------- inputs
\* Python None for a column value or an id (ids start at 1)
None == 0

UserNames == {<<"L">>}
Titles == {"Inception"}
NewTitles == {"Tenet"}
DirectorNames == {<<"N">>, <<"N", " ">>, <<>>}
NewDirectorNames == {<<"S">>, <<"N", " ">>, <<" ">>}
GenreNames == {<<"G", " ">>, <<>>}
Years == {2010}
Ratings == {8}
NewYears == {2020}
NewRatings == {9}

\* The characters of a year text: two digits and a separator
YearChars == {"1", "2", "-"}

YearTexts == UNION {[1..n -> YearChars] : n \in 0..MaxYearLen}

\* The characters of a generated text: a digit, a letter, the full stop,
\* the hyphen, the space and the line break
ContentChars == {"1", "a", ".", "-", " ", "\n"}

Contents == UNION {[1..n -> ContentChars] : n \in 0..MaxContentLen}

\* ids passed to the calls: the ids that can exist and one that never does
UserIds == 1..(MaxUsers + 1)
MovieIds == 1..(MaxMovies + 1)
ReviewIds == 1..(MaxReviews + 1)

\* ---------------------------------------------------------------- state
VARIABLES store, committed, txn, ret, reqs

vars == <<store, committed, txn, ret, reqs>>

EmptyStore ==
  [users |-> {}, movies |-> {}, directors |-> {}, genres |-> {}, reviews |-> {}]

\* The last call and its outcome: the operation, its result (the value
\* returned, the exception raised or the HTTP status), the user id and the
\* movie (or review) id it was about, the field names and the director name
\* passed, and the review rows the call deleted.  For a form request also
\* the HTTP method, the message shown and what the metadata service
\* answered (svc), with the name, the form or the answer in arg; for a helper
\* function the text it was given (arg) and the value it returned (out).
Ret(op, res, uid, mid, keys, dname) ==
  [op |-> op, res |-> res, uid |-> uid, mid |-> mid, keys |-> keys,
   dname |-> dname, gone |-> {}, method |-> "-", msg |-> "-",
   svc |-> "-", arg |-> <<>>, out |-> 0]

NoName == <<>>

\* The API requests being handled at the same time, each by its own thread
\* with its own session and database connection: where the request is in
\* api_add_movie (pc), its user id and JSON body, the Director and Genre it
\* resolved (did, gid), the rows it flushed in its open transaction (dirs,
\* gens) and the directors table as its lookup saw it (seen).
Requests == 1..MaxRequests

Idle ==
  [pc |-> "idle", uid |-> None, body |-> <<>>, seen |-> {}, did |-> None,
   gid |-> None, dirs |-> {}, gens |-> {}]

Init ==
  /\ store = EmptyStore
  /\ committed = EmptyStore
  /\ txn = "active"
  /\ ret = Ret("init", "None", None, None, {}, NoName)
  /\ reqs = [p \in Requests |-> Idle]

\* ---------------------------------------------------------------- helpers
Max(S) == CHOOSE x \in S : \A y \in S : y <= x

\* SQLite INTEGER PRIMARY KEY: the new rowid is the largest rowid in the
\* table plus one (1 for an empty table).
NextId(rows) == IF rows = {} THEN 1 ELSE Max({r.id : r \in rows}) + 1

\* str.strip(): remove leading and trailing whitespace
RECURSIVE LStrip(_)
LStrip(s) == IF s # <<>> /\ Head(s) = " " THEN LStrip(Tail(s)) ELSE s

RECURSIVE RStrip(_)
RStrip(s) ==
  IF s # <<>> /\ s[Len(s)] = " " THEN RStrip(SubSeq(s, 1, Len(s) - 1)) ELSE s

strip(s) == RStrip(LStrip(s))

\* Python truthiness of a string
Truthy(s) == s # <<>>

\* The characters the pattern \d matches, and int() of one of them
Digits == {"0", "1", "2", "3", "4", "5", "6", "7", "8", "9"}

DigitVal(c) ==
  CHOOSE n \in 0..9 :
    <<"0", "1", "2", "3", "4", "5", "6", "7", "8", "9">>[n + 1] = c

Min(S) == CHOOSE x \in S : \A y \in S : x <= y

\* The positions at which the pattern \d{4} matches in s
MatchStarts(s) ==
  {i \in 1..(Len(s) - 3) : \A k \in 0..3 : s[i + k] \in Digits}

\* A search that returns the last match
FirstMatch_Last(s) == Max(MatchStarts(s))

\* re.search returns the leftmost match
FirstMatch(s) == Min(MatchStarts(s))

\* int() of the four digits that start at position i
IntOfMatch(s, i) ==
  1000 * DigitVal(s[i]) + 100 * DigitVal(s[i + 1])
    + 10 * DigitVal(s[i + 2]) + DigitVal(s[i + 3])

\* SQLiteDataManager.parse_year.  None and the empty string are both falsy
\* and take the first return; both are the empty sequence here.
parse_year(raw_year) ==
  IF ~(raw_year # <<>>) THEN 0
  ELSE IF MatchStarts(raw_year) = {} THEN 0
  ELSE IntOfMatch(raw_year, FirstMatch(raw_year))

\* ------------------------------------------- services/ai_client.py
\* str.splitlines(): the lines of s without their line breaks
RECURSIVE splitlines(_)
splitlines(s) ==
  IF s = <<>> THEN <<>>
  ELSE LET brk == {i \in 1..Len(s) : s[i] = "\n"}
       IN IF brk = {} THEN <<s>>
          ELSE <<SubSeq(s, 1, Min(brk) - 1)>>
                 \o splitlines(SubSeq(s, Min(brk) + 1, Len(s)))

\* sep in line: the positions at which the separator occurs
Find(line, sep) ==
  {i \in 1..(Len(line) - Len(sep) + 1) :
     SubSeq(line, i, i + Len(sep) - 1) = sep}

\* line.split(sep, 1) for a line that contains sep
SplitOnce(line, sep) ==
  LET i == Min(Find(line, sep))
  IN <<SubSeq(line, 1, i - 1), SubSeq(line, i + Len(sep), Len(line))>>

FullStop == <<".">>
Dash == <<" ", "-", " ">>

\* The body of the loop of get_movie_recommendations for one non-blank,
\* stripped line
ParseLine(line0) ==
  LET line == IF Find(line0, FullStop) # {}
                THEN strip(SplitOnce(line0, FullStop)[2])
                ELSE line0
  IN IF Find(line, Dash) # {}
       THEN [title |-> strip(SplitOnce(line, Dash)[1]),
             reason |-> strip(SplitOnce(line, Dash)[2])]
       ELSE [title |-> line, reason |-> <<>>]

RECURSIVE ParseLines(_)
ParseLines(lines) ==
  IF lines = <<>> THEN <<>>
  ELSE LET line == strip(Head(lines))
       IN IF ~Truthy(line) THEN ParseLines(Tail(lines))
          ELSE <<ParseLine(line)>> \o ParseLines(Tail(lines))

\* get_movie_recommendations from the generated text on: the list of
\* recommendations parsed from content
get_movie_recommendations(content) == ParseLines(splitlines(content))

\* session.get(User, id) / session.get(Movie, id) / session.get(Review, id)
get_user(s, id) == {u \in s.users : u.id = id}
get_movie(s, id) == {m \in s.movies : m.id = id}
get_review(s, id) == {r \in s.reviews : r.id = id}

\* query(Movie).filter(Movie.user_id == user_id).all()
get_user_movies(s, user_id) == {m \in s.movies : m.user_id = user_id}

\* query(Review).filter(Review.movie_id == movie_id).all()
get_reviews_for_movie(s, movie_id) == {r \in s.reviews : r.movie_id = movie_id}

\* query(Review).filter(Review.user_id == user_id).all()
get_reviews_for_user(s, user_id) == {r \in s.reviews : r.user_id = user_id}

\* movie.director.name if movie.director else None (api.movie_to_dict)
movie_director_name(s, m) ==
  IF \E d \in s.directors : d.id = m.director_id
    THEN (CHOOSE d \in s.directors : d.id = m.director_id).name
    ELSE NoName

\* ------------------------------------------------------------ the schema
\* The attributes of the Movie class: its columns and relationships.
\* hasattr(movie, key) and the keyword check of the declarative constructor
\* Movie(**kwargs) both test membership in this set.
MovieAttrs ==
  {"id", "name", "director_id", "genre_id", "director", "genre",
   "year", "rating", "user_id", "user", "reviews"}

\* JSON null / Python None as a movie title
NullTitle == "<null>"

\* A database without the UNIQUE constraint on genres.name
IntegrityOK_NoUnique(s) ==
  /\ \A m \in s.movies : m.user_id # None /\ m.name # NullTitle
  /\ \A r \in s.reviews : r.user_id # None /\ r.movie_id # None

\* What the database enforces when rows are written: the NOT NULL columns
\* that a call can leave empty and UNIQUE(genres.name).  FOREIGN KEY clauses
\* are not enforced by SQLite.
IntegrityOK(s) ==
  /\ \A m \in s.movies : m.user_id # None /\ m.name # NullTitle
  /\ \A r \in s.reviews : r.user_id # None /\ r.movie_id # None
  /\ \A g1, g2 \in s.genres : g1.name = g2.name => g1.id = g2.id

\* A Movie.reviews relationship without the cascade
MovieCascade_None(s, movie_id) == {}

\* cascade="all, delete-orphan" on Movie.reviews: session.delete(movie)
\* deletes the reviews of the movie first.
MovieCascade(s, movie_id) ==
  {r \in s.reviews : r.movie_id = movie_id}

\* A delete that removes the reviews and keeps the movie row
DeleteMovieRow_KeepsMovie(s, movie_id) ==
  [s EXCEPT !.reviews = @ \ MovieCascade(s, movie_id)]

DeleteMovieRow(s, movie_id) ==
  [s EXCEPT !.movies = {m \in @ : m.id # movie_id},
            !.reviews = @ \ MovieCascade(s, movie_id)]

\* cascade="all, delete-orphan" on User.movies and User.reviews:
\* session.delete(user) deletes the user's reviews and the user's movies,
\* each movie with its own cascade.
\* A User.movies relationship without the cascade
UserCascadeMovies_None(s, user_id) == {}

UserCascadeMovies(s, user_id) == {m.id : m \in get_user_movies(s, user_id)}

DeleteUserRow(s, user_id) ==
  LET mids == UserCascadeMovies(s, user_id)
  IN [s EXCEPT !.users = {u \in @ : u.id # user_id},
               !.movies = {m \in @ : m.id \notin mids},
               !.reviews = {r \in @ : /\ r.user_id # user_id
                                      /\ \A i \in mids :
                                           r \notin MovieCascade(s, i)}]

\* ------------------------------------------------------- find-or-create
\* A lookup that never finds the row
FindDirector_Miss(s, name) == {}

\* Director.query.filter_by(name=name).first()
FindDirector(s, name) == {d \in s.directors : d.name = name}

\* Genre.query.filter_by(name=name).first()
FindGenre(s, name) == {g \in s.genres : g.name = name}

\* first(): the row with the lowest rowid among the matches
First(rows) == CHOOSE r \in rows : \A q \in rows : r.id <= q.id

\* add_movie / api_add_movie step "Find or create Director by name": the
\* name is used as given; a new row is flushed into the open transaction.
FindOrCreateDirector(s, name) ==
  IF FindDirector(s, name) # {}
    THEN [s |-> s, id |-> First(FindDirector(s, name)).id]
    ELSE LET id == NextId(s.directors)
         IN [s |-> [s EXCEPT !.directors = @ \cup {[id |-> id, name |-> name]}],
             id |-> id]

\* add_movie / api_add_movie step "Find or create Genre by name (if
\* provided)": skipped for a falsy name (None or the empty string).
FindOrCreateGenre(s, name) ==
  IF ~Truthy(name) THEN [s |-> s, id |-> None]
  ELSE IF FindGenre(s, name) # {}
    THEN [s |-> s, id |-> First(FindGenre(s, name)).id]
    ELSE LET id == NextId(s.genres)
         IN [s |-> [s EXCEPT !.genres = @ \cup {[id |-> id, name |-> name]}],
             id |-> id]

\* SQLiteDataManager._get_or_create_director: strips the name, resolves an
\* empty name to None, otherwise finds or creates (and flushes) the row.
get_or_create_director(s, director_name) ==
  LET nm == strip(director_name)
  IN IF ~Truthy(nm) THEN [s |-> s, id |-> None]
     ELSE FindOrCreateDirector(s, nm)

\* The model keeps the row ids within the bounds: a call that would create a
\* row with an id beyond them is not taken.
WithinBounds(s) ==
  /\ \A u \in s.users : u.id <= MaxUsers
  /\ \A m \in s.movies : m.id <= MaxMovies
  /\ \A d \in s.directors : d.id <= MaxDirectors
  /\ \A g \in s.genres : g.id <= MaxGenres
  /\ \A r \in s.reviews : r.id <= MaxReviews

\* ------------------------------------------------------------ the session
\* session.commit(): flush the pending changes and commit.  A statement
\* that violates a constraint raises IntegrityError; the transaction is
\* rolled back and the session stays inactive until rollback() or remove().
Commit(s, r) ==
  IF IntegrityOK(s)
    THEN /\ store' = s
         /\ committed' = s
         /\ txn' = "active"
         /\ ret' = r
         /\ UNCHANGED reqs
    ELSE /\ store' = committed
         /\ committed' = committed
         /\ txn' = "inactive"
         /\ ret' = [r EXCEPT !.res = "IntegrityError"]
         /\ UNCHANGED reqs

\* Any use of a session whose transaction is inactive
PendingRollback(op) ==
  /\ UNCHANGED <<store, committed, txn, reqs>>
  /\ ret' = Ret(op, "PendingRollbackError", None, None, {}, NoName)

\* An exception that leaves the method without touching the session
Raise(r, err) ==
  /\ UNCHANGED <<store, committed, txn, reqs>>
  /\ ret' = [r EXCEPT !.res = err]

\* An exception raised after rows were flushed: the methods have no
\* try/except and no rollback, so the flushed rows stay in the open
\* transaction of the session.
RaiseAfterFlush(s, r, err) ==
  /\ store' = s
  /\ UNCHANGED <<committed, txn, reqs>>
  /\ ret' = [r EXCEPT !.res = err]

\* ----------------------------------------------------------- operations
\* SQLiteDataManager.add_user
add_user(name) ==
  LET r == Ret("add_user", "ok", None, None, {}, NoName)
      s == [store EXCEPT !.users = @ \cup {[id |-> NextId(store.users),
                                             name |-> name]}]
  IN IF txn # "active" THEN PendingRollback(r.op)
     ELSE WithinBounds(s) /\ Commit(s, [r EXCEPT !.uid = NextId(store.users)])

\* The keyword arguments SQLiteDataManager.add_movie passes to Movie(...)
AddMovieKwargs ==
  {"name", "year", "rating", "user_id", "director", "genre", "poster_url"}

\* The keyword arguments api_add_movie passes to Movie(...)
ApiMovieKwargs == {"name", "year", "rating", "user_id", "director", "genre"}

\* The declarative constructor Movie(**kwargs) raises TypeError for a
\* keyword that is not an attribute of the class.
MovieCtorAccepts(kwargs) == kwargs \subseteq MovieAttrs

NewMovie(s, user_id, name, year, rating, director_id, genre_id) ==
  [id |-> NextId(s.movies), name |-> name, year |-> year, rating |-> rating,
   user_id |-> user_id, director_id |-> director_id, genre_id |-> genre_id]

\* A user check that lets every id through
UserMissing_Skipped(s, user_id) == FALSE

\* User.query.get(user_id) is None
UserMissing(s, user_id) == get_user(s, user_id) = {}

\* SQLiteDataManager.add_movie
add_movie(user_id, name, director, year, rating, genre) ==
  LET r == Ret("add_movie", "ok", user_id, None, {}, director)
      d == FindOrCreateDirector(store, director)
      g == FindOrCreateGenre(d.s, genre)
      m == NewMovie(g.s, user_id, name, year, rating, d.id, g.id)
      s == [g.s EXCEPT !.movies = @ \cup {m}]
  IN IF txn # "active" THEN PendingRollback(r.op)
     ELSE IF UserMissing(store, user_id) THEN Raise(r, "ValueError")
     ELSE IF ~MovieCtorAccepts(AddMovieKwargs)
       THEN WithinBounds(g.s) /\ RaiseAfterFlush(g.s, r, "TypeError")
       ELSE WithinBounds(s) /\ Commit(s, [r EXCEPT !.mid = m.id])

\* setattr(movie, key, value) as it reaches the movies row: a column is
\* written, the relationship `director` writes director_id, and any other
\* name becomes a plain Python attribute of the object that is not stored.
Columns == {"name", "year", "rating", "user_id", "director_id", "genre_id"}

RowAfterSetattr(m, key, value) ==
  IF key \in Columns THEN [m EXCEPT ![key] = value]
  ELSE IF key = "director" THEN [m EXCEPT !.director_id = value]
  ELSE IF key = "genre" THEN [m EXCEPT !.genre_id = value]
  ELSE m

\* An update that writes every column, the fields not passed as empty
ApplyFields_Put(m, keys, v) ==
  [m EXCEPT !.name = v.name, !.year = v.year, !.rating = v.rating]

\* The loop of update_movie over the remaining fields:
\*   if hasattr(movie, key): setattr(movie, key, value)
RECURSIVE ApplyFields(_, _, _)
ApplyFields(m, keys, v) ==
  IF keys = {} THEN m
  ELSE LET k == CHOOSE x \in keys : TRUE
           m1 == IF k \in MovieAttrs THEN RowAfterSetattr(m, k, v[k]) ELSE m
       IN ApplyFields(m1, keys \ {k}, v)

\* An update that resolves the director name before it looks the movie up
update_movie_ResolvesFirst(movie_id, keys, v) ==
  LET r == Ret("update_movie", "ok", None, movie_id, keys,
               IF "director" \in keys THEN v.director ELSE NoName)
      d == IF "director" \in keys
             THEN get_or_create_director(store, v.director)
             ELSE [s |-> store, id |-> None]
  IN IF txn # "active" THEN PendingRollback(r.op)
     ELSE IF get_movie(store, movie_id) = {}
       THEN WithinBounds(d.s) /\ Commit(d.s, [r EXCEPT !.res = "None"])
     ELSE
       LET movie == CHOOSE m \in store.movies : m.id = movie_id
           m2 == ApplyFields(movie, keys \ {"director"}, v)
           s == [d.s EXCEPT !.movies = (@ \ {movie}) \cup {m2}]
       IN WithinBounds(s) /\ Commit(s, r)

\* SQLiteDataManager.update_movie(movie_id, **fields); keys is the set of
\* field names passed and v gives their values.
update_movie(movie_id, keys, v) ==
  LET r == Ret("update_movie", "ok", None, movie_id, keys,
               IF "director" \in keys THEN v.director ELSE NoName)
  IN IF txn # "active" THEN PendingRollback(r.op)
     ELSE IF get_movie(store, movie_id) = {} THEN Raise(r, "None")
     ELSE
       LET movie == CHOOSE m \in store.movies : m.id = movie_id
           d == IF "director" \in keys
                  THEN get_or_create_director(store, v.director)
                  ELSE [s |-> store, id |-> None]
           \* movie.director_obj = director_obj
           m1 == IF "director" \in keys
                   THEN RowAfterSetattr(movie, "director_obj", d.id)
                   ELSE movie
           m2 == ApplyFields(m1, keys \ {"director"}, v)
           s == [d.s EXCEPT !.movies = (@ \ {movie}) \cup {m2}]
       IN WithinBounds(s) /\ Commit(s, r)

\* SQLiteDataManager.delete_movie
delete_movie(movie_id) ==
  LET r == Ret("delete_movie", "True", None, movie_id, {}, NoName)
  IN IF txn # "active" THEN PendingRollback(r.op)
     ELSE IF get_movie(store, movie_id) = {} THEN Raise(r, "False")
     ELSE Commit(DeleteMovieRow(store, movie_id),
                 [r EXCEPT !.gone = store.reviews \
                                      DeleteMovieRow(store, movie_id).reviews])

\* SQLiteDataManager.add_review
add_review(user_id, movie_id) ==
  LET r == Ret("add_review", "ok", user_id, movie_id, {}, NoName)
      s == [store EXCEPT !.reviews = @ \cup
              {[id |-> NextId(store.reviews), user_id |-> user_id,
                movie_id |-> movie_id]}]
  IN IF txn # "active" THEN PendingRollback(r.op)
     ELSE WithinBounds(s) /\ Commit(s, r)

\* SQLiteDataManager.delete_review; the review id is reported in mid
delete_review(review_id) ==
  LET r == Ret("delete_review", "True", None, review_id, {}, NoName)
  IN IF txn # "active" THEN PendingRollback(r.op)
     ELSE IF get_review(store, review_id) = {} THEN Raise(r, "False")
     ELSE Commit([store EXCEPT !.reviews = {x \in @ : x.id # review_id}], r)

\* The application context ends: Flask-SQLAlchemy removes the scoped
\* session, which rolls back whatever was not committed.
remove_session ==
  /\ store # committed \/ txn # "active"
  /\ store' = committed
  /\ committed' = committed
  /\ txn' = "active"
  /\ UNCHANGED reqs
  /\ ret' = Ret("remove_session", "None", None, None, {}, NoName)

\* session.delete(user); session.commit() under the cascade rules of the
\* schema.  No method of the data-access layer performs it.
delete_user(user_id) ==
  LET r == Ret("delete_user", "True", user_id, None, {}, NoName)
  IN IF txn # "active" THEN PendingRollback(r.op)
     ELSE IF get_user(store, user_id) = {} THEN Raise(r, "False")
     ELSE Commit(DeleteUserRow(store, user_id),
                 [r EXCEPT !.gone = store.reviews \
                                      DeleteUserRow(store, user_id).reviews])

\* ------------------------------------------------------------ JSON API
RequiredFields == {"name", "director", "year", "rating"}

\* POST /api/users/<user_id>/movies.  The request runs in its own
\* application context: it starts with a fresh session and the session is
\* removed when the request ends.  body.present is the set of keys of the
\* JSON object, body.dirIsStr tells whether "director" is a string and
\* body.numOk whether int(year) and float(rating) succeed.
api_add_movie(user_id, body) ==
  LET r == Ret("api_add_movie", "201", user_id, None, {}, body.director)
      genre_name == IF "genre" \in body.present THEN body.genre ELSE NoName
      d == FindOrCreateDirector(store, body.director)
      g == FindOrCreateGenre(d.s, genre_name)
      m == NewMovie(g.s, user_id, body.name, body.year, body.rating, d.id, g.id)
      s == [g.s EXCEPT !.movies = @ \cup {m}]
  IN /\ txn = "active"
     /\ store = committed
     /\ IF get_user(store, user_id) = {} THEN Raise(r, "404")
        ELSE IF ~(RequiredFields \subseteq body.present) THEN Raise(r, "400")
        ELSE IF ~body.dirIsStr THEN Raise(r, "400")
        ELSE IF ~body.numOk THEN Raise(r, "400")
        ELSE IF ~MovieCtorAccepts(ApiMovieKwargs) THEN Raise(r, "500")
        ELSE /\ WithinBounds(s)
             /\ IF IntegrityOK(s)
                  THEN /\ store' = s
                       /\ committed' = s
                       /\ ret' = [r EXCEPT !.mid = m.id]
                  ELSE /\ UNCHANGED <<store, committed>>
                       /\ ret' = [r EXCEPT !.res = "500"]
             /\ txn' = "active"
             /\ UNCHANGED reqs

\* ------------------------------------- api_add_movie, statement by statement
\* Requests handled by different threads interleave between their SQL
\* statements.  Each has its own session: it reads the committed database
\* and the rows it flushed itself.
View(p) ==
  [committed EXCEPT !.directors = @ \cup reqs[p].dirs,
                    !.genres = @ \cup reqs[p].gens]

\* SQLite allows one writer at a time: the first INSERT of a transaction
\* takes the write lock and holds it until the transaction ends.
HoldsLock(p) == reqs[p].dirs # {} \/ reqs[p].gens # {}

LockFree(p) == \A q \in Requests \ {p} : ~HoldsLock(q)

\* The request ends with an error response: its session is removed and its
\* transaction rolled back.
Fail(p, err) ==
  /\ reqs' = [reqs EXCEPT ![p] = Idle]
  /\ ret' = [Ret("api_add_movie", "500", reqs[p].uid, None, {},
                 reqs[p].body.director) EXCEPT !.msg = err]
  /\ UNCHANGED <<store, committed, txn>>

Step(p, req) ==
  /\ reqs' = [reqs EXCEPT ![p] = req]
  /\ UNCHANGED <<store, committed, txn, ret>>

\* The request arrives: user lookup and validation of the body
req_start(p, user_id, body) ==
  LET r == Ret("api_add_movie", "201", user_id, None, {}, body.director)
  IN /\ reqs[p].pc = "idle"
     /\ txn = "active"
     /\ store = committed
     /\ IF get_user(committed, user_id) = {} THEN Raise(r, "404")
        ELSE IF ~(RequiredFields \subseteq body.present) THEN Raise(r, "400")
        ELSE IF ~body.dirIsStr THEN Raise(r, "400")
        ELSE IF ~body.numOk THEN Raise(r, "400")
        ELSE Step(p, [Idle EXCEPT !.pc = "find_director", !.uid = user_id,
                                  !.body = body])

\* A request that inserts the Director without looking for it
req_find_director_Blind(p) ==
  /\ reqs[p].pc = "find_director"
  /\ Step(p, [reqs[p] EXCEPT !.pc = "insert_director",
                              !.seen = View(p).directors])

\* Director.query.filter_by(name=director_name).first()
req_find_director(p) ==
  LET found == FindDirector(View(p), reqs[p].body.director)
  IN /\ reqs[p].pc = "find_director"
     /\ IF found # {}
          THEN Step(p, [reqs[p] EXCEPT !.pc = "find_genre",
                                       !.did = First(found).id,
                                       !.seen = View(p).directors])
          ELSE Step(p, [reqs[p] EXCEPT !.pc = "insert_director",
                                       !.seen = View(p).directors])

\* db.session.add(director); db.session.flush()
req_insert_director(p) ==
  LET id == NextId(View(p).directors)
      row == [id |-> id, name |-> reqs[p].body.director]
  IN /\ reqs[p].pc = "insert_director"
     /\ LockFree(p)
     /\ id <= MaxDirectors
     /\ Step(p, [reqs[p] EXCEPT !.pc = "find_genre", !.did = id,
                                 !.dirs = @ \cup {row}])

\* Genre.query.filter_by(name=genre_name).first(), if genre_name
req_find_genre(p) ==
  LET genre_name == IF "genre" \in reqs[p].body.present
                      THEN reqs[p].body.genre ELSE NoName
      found == FindGenre(View(p), genre_name)
  IN /\ reqs[p].pc = "find_genre"
     /\ IF ~Truthy(genre_name)
          THEN Step(p, [reqs[p] EXCEPT !.pc = "commit"])
          ELSE IF found # {}
            THEN Step(p, [reqs[p] EXCEPT !.pc = "commit",
                                         !.gid = First(found).id])
            ELSE Step(p, [reqs[p] EXCEPT !.pc = "insert_genre"])

\* db.session.add(genre); db.session.flush(): the INSERT raises
\* IntegrityError when the database has a genre of that name.
req_insert_genre(p) ==
  LET id == NextId(View(p).genres)
      row == [id |-> id, name |-> reqs[p].body.genre]
      s == [View(p) EXCEPT !.genres = @ \cup {row}]
  IN /\ reqs[p].pc = "insert_genre"
     /\ LockFree(p)
     /\ IF IntegrityOK(s)
          THEN /\ id <= MaxGenres
               /\ Step(p, [reqs[p] EXCEPT !.pc = "commit", !.gid = id,
                                           !.gens = @ \cup {row}])
          ELSE Fail(p, "IntegrityError")

\* movie = Movie(...); db.session.add(movie); db.session.commit(); 201
req_commit(p) ==
  LET b == reqs[p].body
      m == NewMovie(View(p), reqs[p].uid, b.name, b.year, b.rating,
                    reqs[p].did, reqs[p].gid)
      s == [View(p) EXCEPT !.movies = @ \cup {m}]
  IN /\ reqs[p].pc = "commit"
     /\ LockFree(p)
     /\ IF ~MovieCtorAccepts(ApiMovieKwargs) THEN Fail(p, "TypeError")
        ELSE IF ~IntegrityOK(s) THEN Fail(p, "IntegrityError")
          ELSE /\ WithinBounds(s)
               /\ store' = s
               /\ committed' = s
               /\ txn' = "active"
               /\ reqs' = [reqs EXCEPT ![p] = Idle]
               /\ ret' = Ret("api_add_movie", "201", reqs[p].uid, m.id, {},
                             b.director)

\* A statement that writes finds the database locked by another request
\* for longer than the connection's timeout: OperationalError
req_timeout(p) ==
  /\ reqs[p].pc \in {"insert_director", "insert_genre", "commit"}
  /\ ~LockFree(p)
  /\ Fail(p, "OperationalError")

\* ------------------------------------------------- form handlers (app.py)
\* Every request runs in its own application context: it starts with a
\* fresh session, and when the response is sent the session is removed,
\* which rolls back whatever the request did not commit.
FreshSession == txn = "active" /\ store = committed

\* The response r is sent; s is the database the request leaves.
Respond(r, s) ==
  /\ store' = s
  /\ committed' = s
  /\ txn' = "active"
  /\ ret' = r
  /\ UNCHANGED reqs

FormRet(op, method, uid, mid) ==
  [Ret(op, "render", uid, mid, {}, NoName) EXCEPT !.method = method]

\* The results of a request: "404" is abort(404), "500" is abort(500) after
\* a caught SQLAlchemyError, "redirect" and "render" are the handler's own
\* returns, and "unhandled" is an exception no handler code catches.
Abort404(r) == Respond([r EXCEPT !.res = "404"], committed)

\* The messages of the add-user, add-movie and update-movie forms
MsgNameRequired == "Name is required."
MsgUnreachable == "Could not reach the movie service. Please try again later."
MsgInvalidData == "Received invalid data from the movie service."
MsgNotFound == "Movie not found"
MsgYearRating == "Year must be a whole number and rating must be a number."

\* GET /users/<user_id>
form_user_movies(user_id) ==
  LET r == FormRet("form_user_movies", "GET", user_id, None)
  IN /\ FreshSession
     /\ IF get_user(store, user_id) = {} THEN Abort404(r)
        ELSE Respond(r, committed)

\* GET, POST /add_user
form_add_user(method, name) ==
  LET r == [FormRet("form_add_user", method, None, None) EXCEPT !.arg = name]
      nm == strip(name)
      s == [store EXCEPT !.users = @ \cup {[id |-> NextId(store.users),
                                             name |-> nm]}]
  IN /\ FreshSession
     /\ IF method = "GET" THEN Respond(r, committed)
        ELSE IF ~Truthy(nm)
          THEN Respond([r EXCEPT !.msg = MsgNameRequired], committed)
        ELSE /\ WithinBounds(s)
             /\ IF IntegrityOK(s)
                  THEN Respond([r EXCEPT !.res = "redirect",
                                         !.uid = NextId(store.users)], s)
                  ELSE Respond([r EXCEPT !.res = "500"], committed)

\* The field names of the update form and what data_manager.update_movie
\* does to the rows for them (the body of SQLiteDataManager.update_movie
\* for an existing movie, up to the commit)
UpdateFormKeys == {"name", "director", "year", "rating"}

update_movie_rows(s, movie_id, keys, v) ==
  LET movie == CHOOSE m \in s.movies : m.id = movie_id
      d == IF "director" \in keys
             THEN get_or_create_director(s, v.director)
             ELSE [s |-> s, id |-> None]
      m1 == IF "director" \in keys
              THEN RowAfterSetattr(movie, "director_obj", d.id)
              ELSE movie
      m2 == ApplyFields(m1, keys \ {"director"}, v)
  IN [d.s EXCEPT !.movies = (@ \ {movie}) \cup {m2}]

\* A validation that lets every form through
UpdateFormInvalid_Never(form) == FALSE

\* The try block of the update handler raises KeyError or ValueError
UpdateFormInvalid(form) ==
  \/ ~(UpdateFormKeys \subseteq form.present)
  \/ ~form.yearIsInt
  \/ ~form.ratingIsNum

\* data.get("Director", "Unknown")
UnknownDirector == <<"U", "n", "k", "n", "o", "w", "n">>

RecordFields == {"Title", "Year", "imdbRating", "Director"}

\* GET, POST /users/<user_id>/add_movie.  a is what the metadata service
\* does: a.kind is "network" (connection failure or timeout), "status"
\* (HTTP error status), "notjson" (the body is not JSON), "notobject" (JSON
\* that is not an object), "notfound" (Response is "False") or "record";
\* for a record a.has is the set of its fields, a.yearIsStr tells whether
\* Year is a string and a.rating is "num" (a number as text), "N/A" or
\* "bad" (another text).
form_add_movie(user_id, method, title, a) ==
  LET r == [FormRet("form_add_movie", method, user_id, None)
              EXCEPT !.svc = a.kind, !.keys = a.has, !.arg = a,
                     !.dname = a.Director]
      movie_name == IF "Title" \in a.has THEN a.Title ELSE title
      raw_year == IF "Year" \in a.has THEN a.Year ELSE <<>>
      movie_rating == IF "imdbRating" \in a.has /\ a.rating # "N/A"
                        THEN a.imdbRating ELSE 0
      director == IF "Director" \in a.has THEN a.Director ELSE UnknownDirector
      \* data_manager.add_movie(user_id, name, director, year, rating)
      d == FindOrCreateDirector(store, director)
      g == FindOrCreateGenre(d.s, NoName)
      m == NewMovie(g.s, user_id, movie_name, parse_year(raw_year),
                    movie_rating, d.id, g.id)
      s == [g.s EXCEPT !.movies = @ \cup {m}]
  IN /\ FreshSession
     /\ IF get_user(store, user_id) = {} THEN Abort404(r)
        ELSE IF method = "GET" THEN Respond(r, committed)
        ELSE IF a.kind \in {"network", "status"}
          THEN Respond([r EXCEPT !.msg = MsgUnreachable], committed)
        ELSE IF a.kind = "notjson"
          \* the error of response.json() is a ValueError and, in newer
          \* versions of the HTTP library, also a RequestException
          THEN \E msg \in {MsgInvalidData, MsgUnreachable} :
                 Respond([r EXCEPT !.msg = msg], committed)
        ELSE IF a.kind = "notobject"
          THEN Respond([r EXCEPT !.res = "unhandled"], committed)
        ELSE IF a.kind = "notfound"
          THEN Respond([r EXCEPT !.msg = MsgNotFound], committed)
        ELSE IF "Year" \in a.has /\ ~a.yearIsStr
          THEN Respond([r EXCEPT !.res = "unhandled"], committed)
        ELSE IF "imdbRating" \in a.has /\ a.rating = "bad"
          THEN Respond([r EXCEPT !.res = "unhandled"], committed)
        ELSE IF ~MovieCtorAccepts(AddMovieKwargs)
          THEN WithinBounds(g.s)
                 /\ Respond([r EXCEPT !.res = "unhandled"], committed)
        ELSE /\ WithinBounds(s)
             /\ IF IntegrityOK(s)
                  THEN Respond([r EXCEPT !.res = "redirect", !.mid = m.id], s)
                  ELSE Respond([r EXCEPT !.res = "500"], committed)

\* GET, POST /users/<user_id>/update_movie/<movie_id>.  form.present is the
\* set of form fields sent, form.yearIsInt and form.ratingIsNum tell whether
\* int(form["year"]) and float(form["rating"]) succeed.
form_update_movie(user_id, movie_id, method, form) ==
  LET r == [FormRet("form_update_movie", method, user_id, movie_id)
              EXCEPT !.keys = form.present, !.dname = form.director,
                     !.arg = form]
      s == update_movie_rows(store, movie_id, UpdateFormKeys, form)
  IN /\ FreshSession
     /\ IF get_user(store, user_id) = {} THEN Abort404(r)
        ELSE IF method = "GET"
          THEN IF get_movie(store, movie_id) = {} THEN Abort404(r)
               ELSE Respond(r, committed)
        ELSE IF UpdateFormInvalid(form)
          THEN IF get_movie(store, movie_id) = {} THEN Abort404(r)
               ELSE Respond([r EXCEPT !.msg = MsgYearRating], committed)
        ELSE IF get_movie(store, movie_id) = {}
          \* data_manager.update_movie returns None; the result is not read
          THEN Respond([r EXCEPT !.res = "redirect"], committed)
        ELSE /\ WithinBounds(s)
             /\ IF IntegrityOK(s)
                  THEN Respond([r EXCEPT !.res = "redirect"], s)
                  ELSE Respond([r EXCEPT !.res = "500"], committed)

\* GET, POST /users/<user_id>/delete_movie/<movie_id>
form_delete_movie(user_id, movie_id, method) ==
  LET r == FormRet("form_delete_movie", method, user_id, movie_id)
      s == DeleteMovieRow(store, movie_id)
  IN /\ FreshSession
     /\ IF get_user(store, user_id) = {} THEN Abort404(r)
        ELSE IF get_movie(store, movie_id) = {} THEN Abort404(r)
        ELSE IF IntegrityOK(s)
          THEN Respond([r EXCEPT !.res = "redirect",
                                 !.gone = store.reviews \ s.reviews], s)
          ELSE Respond([r EXCEPT !.res = "500"], committed)

\* GET, POST /users/<user_id>/movies/<movie_id>/add_review.  form.hasText
\* tells whether "review_text" was sent (form[...] of a missing field is a
\* 400 response) and form.ratingIsNum whether float(form["rating"])
\* succeeds (a ValueError nothing catches otherwise).
form_add_review(user_id, movie_id, method, form) ==
  LET r == FormRet("form_add_review", method, user_id, movie_id)
      s == [store EXCEPT !.reviews = @ \cup
              {[id |-> NextId(store.reviews), user_id |-> user_id,
                movie_id |-> movie_id]}]
  IN /\ FreshSession
     /\ IF get_user(store, user_id) = {} THEN Abort404(r)
        ELSE IF get_movie(store, movie_id) = {} THEN Abort404(r)
        ELSE IF method = "GET" THEN Respond(r, committed)
        ELSE IF ~form.hasText THEN Respond([r EXCEPT !.res = "400"], committed)
        ELSE IF ~form.ratingIsNum
          THEN Respond([r EXCEPT !.res = "unhandled"], committed)
        ELSE /\ WithinBounds(s)
             /\ IF IntegrityOK(s)
                  THEN Respond([r EXCEPT !.res = "redirect"], s)
                  ELSE Respond([r EXCEPT !.res = "unhandled"], committed)

\* GET /movies/<movie_id>/reviews
form_movie_reviews(movie_id) ==
  LET r == FormRet("form_movie_reviews", "GET", None, movie_id)
  IN /\ FreshSession
     /\ IF get_movie(store, movie_id) = {} THEN Abort404(r)
        ELSE Respond(r, committed)

\* ------------------------------------------------------------ inputs
\* The field sets update_movie is called with
FieldSets ==
  {{"rating"}, {"director"}, {"user_id"}, {"poster_url"},
   {"name", "director", "year", "rating"}}

OwnerValues == {None, MaxUsers + 1}

FieldValues(keys) ==
  [name : IF "name" \in keys THEN NewTitles ELSE {"-"},
   year : IF "year" \in keys THEN NewYears ELSE {None},
   rating : IF "rating" \in keys THEN NewRatings ELSE {None},
   director : IF "director" \in keys THEN NewDirectorNames ELSE {NoName},
   user_id : IF "user_id" \in keys THEN OwnerValues ELSE {None},
   poster_url : {None}]

Body(present, name, director, dirIsStr, numOk, year, rating, genre) ==
  [present |-> present, name |-> name, director |-> director,
   dirIsStr |-> dirIsStr, numOk |-> numOk, year |-> year, rating |-> rating,
   genre |-> genre]

\* Well-formed bodies, with and without "genre"
GoodBodies ==
  {Body(p, n, d, TRUE, TRUE, y, x, g) :
     p \in {RequiredFields, RequiredFields \cup {"genre"}},
     n \in Titles, d \in DirectorNames, y \in Years,
     x \in Ratings, g \in GenreNames}

\* One well-formed body
PlainBody == Body(RequiredFields, "Inception", <<"N">>, TRUE, TRUE, 2010, 8, NoName)

\* One body for each way of being rejected
BadBodies ==
  {[PlainBody EXCEPT !.present = RequiredFields \ {"rating"}],
   [PlainBody EXCEPT !.dirIsStr = FALSE],
   [PlainBody EXCEPT !.numOk = FALSE],
   [PlainBody EXCEPT !.name = NullTitle]}

\* The names typed into the add-user form
FormUserNames == {<<"L", " ">>, <<" ">>, <<>>}

Methods == {"GET", "POST"}

\* The update form: well-formed, and one form for each way of being
\* rejected
GoodUpdateForm ==
  [present |-> UpdateFormKeys, yearIsInt |-> TRUE, ratingIsNum |-> TRUE,
   name |-> "Tenet", director |-> <<"S">>, year |-> 2020, rating |-> 9]

UpdateForms ==
  {GoodUpdateForm,
   [GoodUpdateForm EXCEPT !.yearIsInt = FALSE],
   [GoodUpdateForm EXCEPT !.ratingIsNum = FALSE],
   [GoodUpdateForm EXCEPT !.present = UpdateFormKeys \ {"name"}]}

ReviewForms ==
  {[hasText |-> TRUE, ratingIsNum |-> TRUE],
   [hasText |-> FALSE, ratingIsNum |-> TRUE],
   [hasText |-> TRUE, ratingIsNum |-> FALSE]}

\* What the metadata service can do
NoRecord(kind) ==
  [kind |-> kind, has |-> {}, Title |-> "-", Year |-> <<>>,
   yearIsStr |-> TRUE, rating |-> "N/A", imdbRating |-> 0,
   Director |-> NoName]

GoodRecord ==
  [kind |-> "record", has |-> RecordFields, Title |-> "Inception",
   Year |-> <<"2", "0", "1", "0">>, yearIsStr |-> TRUE, rating |-> "num",
   imdbRating |-> 8, Director |-> <<"N">>]

Answers ==
  {NoRecord(k) : k \in {"network", "status", "notjson", "notobject",
                         "notfound"}}
    \cup {GoodRecord,
          [GoodRecord EXCEPT !.Year = <<"2", "0", "1", "0", "-">>],
          [GoodRecord EXCEPT !.yearIsStr = FALSE],
          [GoodRecord EXCEPT !.rating = "N/A"],
          [GoodRecord EXCEPT !.rating = "bad"],
          [GoodRecord EXCEPT !.has = RecordFields \ {"imdbRating"}],
          [GoodRecord EXCEPT !.has = RecordFields \ {"Director"}],
          [GoodRecord EXCEPT !.has = RecordFields \ {"Year"}]}

\* The bodies of the requests that run at the same time: the same
\* director, with and without the same genre
RaceBodies ==
  {PlainBody,
   [PlainBody EXCEPT !.present = RequiredFields \cup {"genre"},
                     !.genre = <<"G">>]}

\* ------------------------------------------------------ specifications
\* Each specification is the disjunction of whole calls; they differ in the
\* calls they include and in the sets the arguments are drawn from.

AddUser == \E n \in UserNames : add_user(n)

AddMovie ==
  \E u \in UserIds, t \in Titles, d \in DirectorNames, y \in Years,
     x \in Ratings, g \in GenreNames : add_movie(u, t, d, y, x, g)

UpdateMovie(fieldSets) ==
  \E m \in MovieIds, keys \in fieldSets :
    \E v \in FieldValues(keys) : update_movie(m, keys, v)

DeleteMovie == \E m \in MovieIds : delete_movie(m)

AddReview(users, movies) == \E u \in users, m \in movies : add_review(u, m)

DeleteReview == \E i \in ReviewIds : delete_review(i)

ApiAddMovie(bodies) == \E u \in UserIds, b \in bodies : api_add_movie(u, b)

DeleteUser == \E u \in UserIds : delete_user(u)

\* Adding movies: both ways of adding a movie with every name, and the
\* director resolution of update_movie.
Next ==
  \/ AddUser
  \/ AddMovie
  \/ ApiAddMovie(GoodBodies \cup BadBodies)
  \/ UpdateMovie({{"director"}})
  \/ DeleteMovie
  \/ remove_session

Spec == Init /\ [][Next]_vars

\* Updating movies: every field set, on movies added through the API.
NextUpdate ==
  \/ AddUser
  \/ ApiAddMovie({PlainBody})
  \/ UpdateMovie(FieldSets)
  \/ DeleteMovie
  \/ AddReview({1}, {1})
  \/ DeleteReview
  \/ remove_session

SpecUpdate == Init /\ [][NextUpdate]_vars

\* Deleting: movies with reviews of several users, and an ORM delete of a
\* user under the schema's cascade rules.
NextCascade ==
  \/ AddUser
  \/ ApiAddMovie({PlainBody})
  \/ DeleteMovie
  \/ AddReview({1, 2}, {1, 2})
  \/ DeleteReview
  \/ DeleteUser

SpecCascade == Init /\ [][NextCascade]_vars

FormUserMovies == \E u \in UserIds : form_user_movies(u)

FormAddUser == \E mt \in Methods, n \in FormUserNames : form_add_user(mt, n)

FormAddMovie ==
  \E u \in UserIds, mt \in Methods, t \in Titles, a \in Answers :
    form_add_movie(u, mt, t, a)

\* The users the form requests are addressed to: one that can exist and
\* one that never does
FormUsers == {1, MaxUsers + 1}

FormUpdateMovie ==
  \E u \in FormUsers, m \in MovieIds, mt \in Methods, f \in UpdateForms :
    form_update_movie(u, m, mt, f)

FormDeleteMovie ==
  \E u \in FormUsers, m \in MovieIds, mt \in Methods :
    form_delete_movie(u, m, mt)

FormAddReview(users, movies) ==
  \E u \in users, m \in movies, mt \in Methods, f \in ReviewForms :
    form_add_review(u, m, mt, f)

FormMovieReviews == \E m \in MovieIds : form_movie_reviews(m)

\* The form interface: the handlers whose path names a user or a movie,
\* on movies added through the API; the review form is addressed to a movie
\* that does not exist.
NextForms ==
  \/ FormUserMovies
  \/ FormAddUser
  \/ FormUpdateMovie
  \/ FormDeleteMovie
  \/ FormAddReview(FormUsers, {MaxMovies + 1})
  \/ FormMovieReviews
  \/ ApiAddMovie({PlainBody})

SpecForms == Init /\ [][NextForms]_vars

\* Adding a movie through the form and through the data-access layer
NextAddForm ==
  \/ AddUser
  \/ FormAddUser
  \/ FormAddMovie
  \/ AddMovie
  \/ FormUserMovies
  \/ remove_session

SpecAddForm == Init /\ [][NextAddForm]_vars

ReqStart ==
  \E p \in Requests, u \in {1, MaxUsers + 1}, b \in RaceBodies :
    req_start(p, u, b)

ReqFindDirector == \E p \in Requests : req_find_director(p)

ReqInsertDirector == \E p \in Requests : req_insert_director(p)

ReqFindGenre == \E p \in Requests : req_find_genre(p)

ReqInsertGenre == \E p \in Requests : req_insert_genre(p)

ReqCommit == \E p \in Requests : req_commit(p)

ReqTimeout == \E p \in Requests : req_timeout(p)

\* API requests handled at the same time
NextRace ==
  \/ AddUser
  \/ ReqStart
  \/ ReqFindDirector
  \/ ReqInsertDirector
  \/ ReqFindGenre
  \/ ReqInsertGenre
  \/ ReqCommit
  \/ ReqTimeout

SpecRace == Init /\ [][NextRace]_vars

\* The year helper on its own: a text is drawn, then parse_year is applied.
InitYear ==
  /\ store = EmptyStore
  /\ committed = EmptyStore
  /\ txn = "active"
  /\ \E text \in YearTexts :
       ret = [Ret("input", "None", None, None, {}, NoName) EXCEPT !.arg = text]
  /\ reqs = [p \in Requests |-> Idle]

ParseYear ==
  /\ ret.op = "input"
  /\ ret' = [ret EXCEPT !.op = "parse_year", !.res = "ok",
                        !.out = parse_year(ret.arg)]
  /\ UNCHANGED <<store, committed, txn, reqs>>

NextYear == ParseYear

SpecYear == InitYear /\ [][NextYear]_vars

\* The recommendation parser on its own: a generated text is drawn, then
\* parsed.
InitContent ==
  /\ store = EmptyStore
  /\ committed = EmptyStore
  /\ txn = "active"
  /\ \E text \in Contents :
       ret = [Ret("input", "None", None, None, {}, NoName) EXCEPT !.arg = text]
  /\ reqs = [p \in Requests |-> Idle]

GetMovieRecommendations ==
  /\ ret.op = "input"
  /\ ret' = [ret EXCEPT !.op = "get_movie_recommendations", !.res = "ok",
                        !.out = get_movie_recommendations(ret.arg)]
  /\ UNCHANGED <<store, committed, txn, reqs>>

NextContent == GetMovieRecommendations

SpecContent == InitContent /\ [][NextContent]_vars

\* ================================================================ claims

\* C1: after any sequence of add-movie calls run one at a time, no two
\* Director rows carry the same name, every movie references a Director
\* row, a movie just added through the API references the row named as the
\* request named it, and so two movies added with the same director name
\* reference the same Director id.
C1_SameDirectorSameRow ==
  /\ \A d1, d2 \in store.directors : d1.name = d2.name => d1.id = d2.id
  /\ \A m \in store.movies : \E d \in store.directors : d.id = m.director_id
  /\ \A m1, m2 \in store.movies :
       movie_director_name(store, m1) = movie_director_name(store, m2)
         => m1.director_id = m2.director_id
  /\ (ret.op = "api_add_movie" /\ ret.res = "201") =>
       \E m \in store.movies :
         m.id = ret.mid /\ movie_director_name(store, m) = ret.dname

\* Two movies added under the same director name share one Director row
C1_Witness ==
  /\ ret.op = "api_add_movie" /\ ret.res = "201"
  /\ \E m1, m2 \in store.movies :
       /\ m1.id # m2.id
       /\ m2.id = ret.mid
       /\ m1.director_id = m2.director_id
       /\ movie_director_name(store, m1) = ret.dname
  /\ Cardinality(store.directors) = 2

\* C2: an add_movie call that gets past the user check resolves the
\* director and genre names by find-or-create on the trimmed name: for an
\* empty trimmed name it creates no row and a movie it adds has no
\* reference; otherwise the row named by the trimmed name exists, it is the
\* only row the call may have created and a movie it adds references it.
C2_TrimmedResolution ==
  [][(ret'.op = "add_movie"
        /\ ret'.res \notin {"ValueError", "PendingRollbackError"}) =>
       LET nm == strip(ret'.dname)
           newD == store'.directors \ store.directors
           newG == store'.genres \ store.genres
           newM == store'.movies \ store.movies
       IN /\ IF nm = <<>>
               THEN newD = {} /\ \A m \in newM : m.director_id = None
               ELSE /\ \E d \in store'.directors : d.name = nm
                    /\ \A d \in newD : d.name = nm
                    /\ \A m \in newM :
                         movie_director_name(store', m) = nm
          /\ \A g \in newG : g.name = strip(g.name) /\ g.name # <<>>]_vars

\* C4: add_movie with a user id that matches no User raises the reference
\* error (ValueError in the code) and writes nothing: no table changes, in
\* the session or in the database.
C4_UnknownUserWritesNothing ==
  [][(ret'.op = "add_movie" /\ ret'.res # "PendingRollbackError") =>
       /\ ret'.res = "ValueError" <=> get_user(store, ret'.uid) = {}
       /\ ret'.res = "ValueError" =>
            store' = store /\ committed' = committed]_vars

\* add_movie for an unknown user failed while users and directors exist
C4_Witness ==
  /\ ret.op = "add_movie" /\ ret.res = "ValueError"
  /\ get_user(store, ret.uid) = {}
  /\ store.users # {}
  /\ \A d \in store.directors : d.name # ret.dname

\* The results with which a writing data-access call fails
Failures == {"ValueError", "TypeError", "IntegrityError", "PendingRollbackError"}

DataAccessWrites ==
  {"add_user", "add_movie", "update_movie", "delete_movie", "add_review",
   "delete_review"}

\* C5: a writing data-access call that fails leaves the store as it was
\* before the call: every later read of the session returns the rows it
\* returned before.
C5_FailedCallLeavesStore ==
  [][(ret'.op \in DataAccessWrites /\ ret'.res \in Failures) =>
       store' = store]_vars

\* C3: update_movie on an existing movie with a director name relinks the
\* movie: afterwards the movie references the Director resolved for the
\* trimmed name (no Director for an empty one), so a read of the movie
\* shows the new director name.
C3_DirectorRelinked ==
  (ret.op = "update_movie" /\ ret.res = "ok" /\ "director" \in ret.keys) =>
    \A m \in get_movie(store, ret.mid) :
      IF strip(ret.dname) = <<>>
        THEN m.director_id = None
        ELSE /\ \E d \in store.directors : d.id = m.director_id
             /\ movie_director_name(store, m) = strip(ret.dname)

\* C6: every Movie row has a non-null user_id that is the id of an
\* existing User.
C6_OwnerExists ==
  \A m \in store.movies :
    m.user_id # None /\ get_user(store, m.user_id) # {}

\* C7: delete_movie on an existing movie removes the movie and exactly the
\* reviews whose movie_id is its id, whoever wrote them; the reviews of
\* other movies stay.
C7_DeleteMovieCascades ==
  [][(ret'.op = "delete_movie" /\ ret'.res = "True") =>
       /\ get_movie(store', ret'.mid) = {}
       /\ get_reviews_for_movie(store', ret'.mid) = {}
       /\ store'.reviews = {r \in store.reviews : r.movie_id # ret'.mid}
       /\ ret'.gone = get_reviews_for_movie(store, ret'.mid)]_vars

\* A delete removed the movie's review, written by one user, and left the
\* review another user wrote on another movie
C7_Witness ==
  /\ ret.op = "delete_movie" /\ ret.res = "True"
  /\ \E r1 \in ret.gone, r2 \in store.reviews :
       /\ r1.movie_id = ret.mid
       /\ r2.movie_id # ret.mid
       /\ get_movie(store, r2.movie_id) # {}
       /\ r1.user_id # r2.user_id

C9_DeleteMovieResult ==
  [][(ret'.op = "delete_movie" /\ ret'.res # "PendingRollbackError") =>
       /\ ret'.res \in {"True", "False"}
       /\ ret'.res = "True" <=> get_movie(store, ret'.mid) # {}
       /\ ret'.res = "True" => get_movie(store', ret'.mid) = {}
       /\ ret'.res = "False" => store' = store /\ committed' = committed
       /\ (ret.op = "delete_movie" /\ ret.res = "True" /\ ret.mid = ret'.mid)
            => ret'.res = "False"]_vars

\* A delete returned true, the movie is gone and another movie is left
C9_Witness ==
  /\ ret.op = "delete_movie" /\ ret.res = "True"
  /\ get_movie(store, ret.mid) = {}
  /\ store.movies # {}

\* C10: update_movie on an existing movie changes the columns named by the
\* fields passed and nothing else: the other columns of the movie, the
\* other movies and the users, genres and reviews stay, and so do the
\* directors unless a director name was passed, which can add the one row
\* it resolves to; the columns passed get the values passed; a field name
\* that is no Movie attribute is ignored and the call succeeds.
C10_UpdateFrame ==
  [][/\ (ret'.op = "update_movie" /\ ret'.res = "ok") =>
          /\ get_movie(store, ret'.mid) # {}
          /\ store'.users = store.users
          /\ store'.genres = store.genres
          /\ store'.reviews = store.reviews
          /\ {m \in store'.movies : m.id # ret'.mid}
               = {m \in store.movies : m.id # ret'.mid}
          /\ \A old \in get_movie(store, ret'.mid) :
               \E new \in get_movie(store', ret'.mid) :
                 /\ new.genre_id = old.genre_id
                 /\ IF "name" \in ret'.keys THEN new.name \in NewTitles
                                            ELSE new.name = old.name
                 /\ IF "year" \in ret'.keys THEN new.year \in NewYears
                                            ELSE new.year = old.year
                 /\ IF "rating" \in ret'.keys THEN new.rating \in NewRatings
                                              ELSE new.rating = old.rating
                 /\ "user_id" \notin ret'.keys => new.user_id = old.user_id
                 /\ "director" \notin ret'.keys =>
                      new.director_id = old.director_id
          /\ IF "director" \in ret'.keys
               THEN /\ store.directors \subseteq store'.directors
                    /\ \A d \in store'.directors \ store.directors :
                         d.name = strip(ret'.dname)
               ELSE store'.directors = store.directors
     /\ (/\ ret'.op = "update_movie"
         /\ ret'.keys = {"poster_url"}
         /\ ret'.res # "PendingRollbackError"
         /\ get_movie(store, ret'.mid) # {}) =>
          ret'.res = "ok" /\ store' = store]_vars

\* update_movie(id, rating=r) changed the rating of one of two movies
\* while reviews exist
C10_Witness ==
  /\ ret.op = "update_movie" /\ ret.res = "ok" /\ ret.keys = {"rating"}
  /\ \E m \in get_movie(store, ret.mid) :
       m.rating \in NewRatings /\ m.name \in Titles /\ m.year \in Years
  /\ \E m \in store.movies : m.id # ret.mid /\ m.rating \in Ratings
  /\ store.reviews # {}

\* C11: update_movie with an id that matches no Movie returns None and
\* writes nothing, whatever fields are passed: no Director row is created
\* for a director name and no row of any table changes, in the session or
\* in the database; it returns None only then.
C11_UnknownMovieNoWrite ==
  [][(ret'.op = "update_movie" /\ ret'.res # "PendingRollbackError") =>
       /\ ret'.res = "None" <=> get_movie(store, ret'.mid) = {}
       /\ ret'.res = "None" => store' = store /\ committed' = committed]_vars

\* update_movie for an unknown id returned None; it carried a director name
\* that no Director row has, while another movie exists
C11_Witness ==
  /\ ret.op = "update_movie" /\ ret.res = "None"
  /\ get_movie(store, ret.mid) = {}
  /\ ret.keys = {"name", "director", "year", "rating"}
  /\ strip(ret.dname) # <<>>
  /\ \A d \in store.directors : d.name # strip(ret.dname)
  /\ store.movies # {}

\* C12: POST /api/users/<user_id>/movies has exactly three outcomes: 404
\* when the user does not exist, 400 for a missing or malformed field, 201
\* otherwise; the store changes only with 201, and then exactly one Movie
\* owned by user_id is added.
C12_ApiThreeOutcomes ==
  [][ret'.op = "api_add_movie" =>
       /\ ret'.res \in {"404", "400", "201"}
       /\ ret'.res = "404" <=> get_user(store, ret'.uid) = {}
       /\ ret'.res = "201" =>
            \E m \in store'.movies :
              /\ m.id = ret'.mid
              /\ m.user_id = ret'.uid
              /\ m \notin store.movies
              /\ store'.movies = store.movies \cup {m}
       /\ ret'.res # "201" => store' = store /\ committed' = committed]_vars

\* C17: parse_year(text) returns the integer value of the first run of four
\* consecutive digits in text (for a range, a year followed by other
\* characters, a digit run longer than four), and 0 when text is empty or
\* absent or has no four consecutive digits.
C17_FirstFourDigits ==
  ret.op = "parse_year" =>
    LET t == ret.arg
        runs == {i \in 1..Len(t) :
                   /\ i + 3 <= Len(t)
                   /\ \A j \in i..(i + 3) : t[j] \in Digits}
    IN IF runs = {} THEN ret.out = 0
       ELSE \E i \in runs :
              /\ \A j \in runs : i <= j
              /\ ret.out \div 1000 = DigitVal(t[i])
              /\ (ret.out \div 100) % 10 = DigitVal(t[i + 1])
              /\ (ret.out \div 10) % 10 = DigitVal(t[i + 2])
              /\ ret.out % 10 = DigitVal(t[i + 3])

\* parse_year of a text with a separator before a run of five digits gave
\* the first four of them
C17_Witness ==
  /\ ret.op = "parse_year"
  /\ ret.arg = <<"-", "2", "1", "2", "1", "1">>
  /\ ret.out = 2121

\* The pair the claim gives for one non-blank line: a list number ("1.")
\* in front is not part of the title; then a line "title - reason" gives
\* the title and the reason, and any other line is the title as a whole.
NumberPrefix(line) ==
  {k \in 1..(Len(line) - 1) :
     /\ \A j \in 1..k : line[j] \in Digits
     /\ line[k + 1] = "."}

ExpectedPair(line0) ==
  LET line == IF NumberPrefix(line0) # {}
                THEN strip(SubSeq(line0, Min(NumberPrefix(line0)) + 2,
                                  Len(line0)))
                ELSE line0
  IN IF Find(line, Dash) # {}
       THEN [title |-> strip(SplitOnce(line, Dash)[1]),
             reason |-> strip(SplitOnce(line, Dash)[2])]
       ELSE [title |-> line, reason |-> <<>>]

RECURSIVE ExpectedPairs(_)
ExpectedPairs(lines) ==
  IF lines = <<>> THEN <<>>
  ELSE IF strip(Head(lines)) = <<>> THEN ExpectedPairs(Tail(lines))
  ELSE <<ExpectedPair(strip(Head(lines)))>> \o ExpectedPairs(Tail(lines))

\* C18: get_movie_recommendations gives one {title, reason} pair per
\* non-blank line, in line order: "title - reason" gives that title and
\* that reason, and a line of any other shape gives the whole line as the
\* title and an empty reason, also when the title contains a full stop.
C18_PairPerLine ==
  ret.op = "get_movie_recommendations" =>
    ret.out = ExpectedPairs(splitlines(ret.arg))

\* The form handlers whose path names a user id, and those whose path
\* names a movie id
UserPathOps ==
  {"form_user_movies", "form_add_movie", "form_update_movie",
   "form_delete_movie", "form_add_review"}

MoviePathOps ==
  {"form_update_movie", "form_delete_movie", "form_add_review",
   "form_movie_reviews"}

\* C13: a form handler whose path names a user id or a movie id answers 404
\* and changes nothing when that user or that movie does not exist, for GET
\* and POST alike; so a POST to update_movie with valid fields for a movie
\* that does not exist answers 404, not a redirect.
C13_MissingIs404 ==
  [][(\/ ret'.op \in UserPathOps /\ get_user(store, ret'.uid) = {}
      \/ ret'.op \in MoviePathOps /\ get_movie(store, ret'.mid) = {}) =>
       /\ ret'.res = "404"
       /\ store' = store
       /\ committed' = committed]_vars

\* C14: a form request rejected for invalid input changes nothing and
\* renders the form again with an error message instead of redirecting: an
\* add_user POST whose name is empty or only whitespace creates no User, and
\* an update_movie POST whose year is no integer or whose rating is no
\* number leaves the movie as it was and creates no Director row.
C14_RejectedNoMutation ==
  [][/\ (/\ ret'.op = "form_add_user"
         /\ ret'.method = "POST"
         /\ strip(ret'.arg) = <<>>) =>
          /\ ret'.res = "render"
          /\ ret'.msg = MsgNameRequired
          /\ store' = store
          /\ committed' = committed
     /\ (/\ ret'.op = "form_update_movie"
         /\ ret'.method = "POST"
         /\ get_user(store, ret'.uid) # {}
         /\ get_movie(store, ret'.mid) # {}
         /\ (~ret'.arg.yearIsInt \/ ~ret'.arg.ratingIsNum)) =>
          /\ ret'.res = "render"
          /\ ret'.msg = MsgYearRating
          /\ store' = store
          /\ committed' = committed]_vars

\* An update form with a year that is no integer was rendered again for an
\* existing movie, and the director the form named has no row
C14_Witness ==
  /\ ret.op = "form_update_movie" /\ ret.method = "POST"
  /\ ret.res = "render" /\ ret.msg = MsgYearRating
  /\ ~ret.arg.yearIsInt
  /\ \E m \in get_movie(store, ret.mid) : m.name \in Titles
  /\ \A d \in store.directors : d.name # ret.dname

\* C15: whatever the metadata service does in answer to an add-movie form
\* POST, the request ends with a rendered page or a redirect, never with an
\* unhandled error; a Movie is created only after a positive answer; a
\* network failure and a not-found answer give different messages.
C15_ServiceNeverCrashes ==
  [][(/\ ret'.op = "form_add_movie"
      /\ ret'.method = "POST"
      /\ get_user(store, ret'.uid) # {}) =>
       /\ ret'.res \in {"render", "redirect"}
       /\ store'.movies # store.movies => ret'.svc = "record"
       /\ ret'.svc = "network" => ret'.msg = MsgUnreachable
       /\ ret'.svc = "notfound" =>
            ret'.msg = MsgNotFound /\ ret'.msg # MsgUnreachable]_vars

\* C16: after add_user and then an add of a movie for that user, through
\* add_movie(user_id, title, director, year, rating) or through the
\* add-movie form whose metadata record gives Title, Year, imdbRating and
\* Director, get_user_movies(user_id) returns exactly one movie: its name is
\* the title, its year and rating are the given ones (the year being the
\* first four-digit run of the Year text) and its director name is the one
\* given.
C16_AddThenList ==
  [][/\ (/\ ret'.op = "add_movie"
         /\ txn = "active"
         /\ get_user(store, ret'.uid) # {}
         /\ get_user_movies(store, ret'.uid) = {}) =>
          \E m \in store'.movies :
            /\ get_user_movies(store', ret'.uid) = {m}
            /\ m.name \in Titles /\ m.year \in Years /\ m.rating \in Ratings
            /\ movie_director_name(store', m) = ret'.dname
     /\ (/\ ret'.op = "form_add_movie"
         /\ ret'.method = "POST"
         /\ get_user(store, ret'.uid) # {}
         /\ get_user_movies(store, ret'.uid) = {}
         /\ ret'.svc = "record"
         /\ ret'.arg.has = RecordFields
         /\ ret'.arg.yearIsStr
         /\ ret'.arg.rating = "num") =>
          \E m \in store'.movies :
            /\ get_user_movies(store', ret'.uid) = {m}
            /\ m.name = ret'.arg.Title
            /\ m.year = 2010
            /\ m.rating = ret'.arg.imdbRating
            /\ movie_director_name(store', m) = ret'.arg.Director]_vars

\* C19: the Director find-or-create has a window between lookup and
\* insert.  A request inserts a Director row only when its own lookup saw
\* no row of that name, and every movie added references a row that
\* carries the name its request gave; but a row of the same name committed
\* by another request after the lookup does not stop the insert, so two
\* rows with one name, referenced by two movies, are reachable.
C19_InsertAfterOwnMiss ==
  [][/\ \A p \in Requests :
          reqs'[p].dirs # reqs[p].dirs /\ reqs'[p].dirs # {} =>
            /\ \A d \in reqs[p].seen : d.name # reqs[p].body.director
            /\ \A d \in reqs'[p].dirs : d.name = reqs[p].body.director
     /\ (ret'.op = "api_add_movie" /\ ret'.res = "201" /\ ret' # ret) =>
          \E m \in committed'.movies :
            m.id = ret'.mid /\ movie_director_name(committed', m) = ret'.dname]_vars

\* Two Director rows carry the same name and two movies reference one each
C19_Witness ==
  \E d1, d2 \in committed.directors, m1, m2 \in committed.movies :
    /\ d1.id # d2.id
    /\ d1.name = d2.name
    /\ m1.director_id = d1.id
    /\ m2.director_id = d2.id

\* C20: no two Genre rows ever carry the same name, also when requests
\* that name the same new genre are interleaved: the second INSERT fails on
\* the UNIQUE constraint (or, while a third request holds the write lock,
\* on the lock timeout), and the request that fails adds no Movie and no
\* Director row.
C20_GenreNameUnique ==
  [][/\ \A g1, g2 \in committed'.genres : g1.name = g2.name => g1.id = g2.id
     /\ \A p \in Requests :
          \A g1, g2 \in View(p).genres : g1.name = g2.name => g1.id = g2.id
     /\ (ret'.op = "api_add_movie" /\ ret'.res = "500") =>
          committed' = committed
     /\ \A p \in Requests :
          (/\ reqs[p].pc = "insert_genre"
           /\ reqs'[p] # reqs[p]
           /\ \E g \in committed.genres : g.name = reqs[p].body.genre) =>
            /\ reqs'[p].pc = "idle"
            /\ ret'.res = "500"
            /\ ret'.msg \in {"IntegrityError", "OperationalError"}
            /\ ret'.msg = "OperationalError" => ~LockFree(p)
            /\ committed'.movies = committed.movies
            /\ committed'.directors = committed.directors]_vars

\* A request lost the race for a new genre: its INSERT failed on the
\* UNIQUE constraint after another request committed a movie with that genre
C20_Witness ==
  /\ ret.op = "api_add_movie" /\ ret.res = "500"
  /\ ret.msg = "IntegrityError"
  /\ Cardinality(committed.genres) = 1
  /\ Cardinality({m \in committed.movies :
                    \E g \in committed.genres : m.genre_id = g.id}) = 1
  /\ Cardinality(committed.directors) = 1

\* C21: a form request addressed to user u never deletes or changes a movie
\* owned by another user: /users/u/delete_movie/m and a POST to
\* /users/u/update_movie/m change movie m only when its user_id is u.
C21_OnlyOwnMovies ==
  [][ret'.op \in {"form_delete_movie", "form_update_movie"} =>
       \A m \in store.movies :
         m.user_id # ret'.uid =>
           m \in store'.movies /\ m \in committed'.movies]_vars

====
